---- MODULE Spec2Model ----
(***************************************************************************)
(* D'Hondt seat allocation of backend/app/services/dhondt_service.py.      *)
(*                                                                         *)
(* DhondtService._calculate_dhondt is modelled as a step machine: one      *)
(* invocation per behaviour, the arguments drawn by Init, one action per   *)
(* block of the function.  The dicts the function builds are objects: the  *)
(* list `results` owns them (an object is named by its position in         *)
(* results), `eligible_results` and `final_results` hold references.       *)
(*                                                                         *)
(* Python floats are IEEE-754 binary64.  The two float expressions of the  *)
(* function, total_votes * (threshold_percent / 100) and                   *)
(* votes / (seats + 1), are computed here on the 53-bit significand with   *)
(* round-to-nearest-even, so that a comparison against a float is the      *)
(* comparison the interpreter makes.                                       *)
(***************************************************************************)
EXTENDS Integers, Sequences, FiniteSets, TLC

(***************************************************************************)
(* Bounds of the model.                                                    *)
(***************************************************************************)
MaxLists == 3

MaxVotes == 2

MaxSeats == 4

\* Two calls side by side take lists and seat counts up to these.
MaxCallLists == 2

MaxCallSeats == 2

\* The workflow: votes of one submission, submissions of one request, rows
\* that voting_submissions is given in a behaviour, rows of calculations,
\* seats of one request.
MaxBallot == 1

MaxBatch == 2

MaxSubmissions == 2

MaxCalculations == 1

MaxRequestSeats == 2

\* Ids that direct calls of insert_calculation may take.
MaxRecords == 3

\* Width of a binary64 significand (sys.float_info.mant_dig).
MantDig == 53

\* Registered parties (ListInput.VALID_PARTIES); candidate i of an input
\* carries the i-th name, so names are unique within a run.
PartyNames ==
    << "Lista A", "Lista B", "Lista C", "Lista D", "Lista E",
       "Lista F", "Lista G", "Lista H", "Lista I", "Lista J" >>

\* Vote counts beyond the small range: 14 of 25 votes is exactly 56 %,
\* the other 11 make up the 25.
BoundaryVotes == {11, 14}

Votes == (-1 .. MaxVotes) \cup BoundaryVotes

\* threshold_percent values: none, the default of the signature, an exact
\* binary fraction of 100 and one that is not.
DefaultThresholdPercent == 3

ThresholdPercents == {0, DefaultThresholdPercent, 50, 56}

SeatCounts == -1 .. MaxSeats

InputLists ==
    UNION { { [k \in 1..n |-> [name |-> PartyNames[k], votes |-> v[k]]] :
                v \in [1..n -> Votes] } : n \in 0..MaxLists }

(***************************************************************************)
(* binary64 values.  kind "pos": 1.f * 2^e, m the 53 significand bits,     *)
(* most significant first.  "zero" is 0.0, "neg" the int -1 that           *)
(* max_quotient starts from, "unset" a local not yet bound.                *)
(***************************************************************************)
DblZero == [kind |-> "zero", e |-> 0, m |-> << >>]

DblMinusOne == [kind |-> "neg", e |-> 0, m |-> << >>]

DblUnset == [kind |-> "unset", e |-> 0, m |-> << >>]

Pow2(n) == 2 ^ n

\* The significand after its leading 1 is worked on in 4 limbs of 13 bits.
LimbWidth == (MantDig - 1) \div 4

Limb == Pow2(LimbWidth)

\* Value of a bit sequence as an int.
RECURSIVE IntOf(_)
IntOf(bits) ==
    IF bits = << >> THEN 0
    ELSE 2 * IntOf(SubSeq(bits, 1, Len(bits) - 1)) + bits[Len(bits)]

\* The LimbWidth bits of a limb, most significant first.
LimbToBits(v) == [i \in 1..LimbWidth |-> (v \div Pow2(LimbWidth - i)) % 2]

\* The k-th limb (1 the most significant) of a 53-bit significand.
LimbOf(bits, k) ==
    IntOf(SubSeq(bits, 2 + (k - 1) * LimbWidth, 1 + k * LimbWidth))

\* n further quotient limbs of r / b (r < b) by long division, and the
\* remainder left.
RECURSIVE DivLimbs(_, _, _)
DivLimbs(r, b, n) ==
    IF n = 0 THEN [q |-> << >>, r |-> r]
    ELSE LET x    == r * Limb
             rest == DivLimbs(x % b, b, n - 1)
         IN  [q |-> LimbToBits(x \div b) \o rest.q, r |-> rest.r]

\* bits + 1, as a sequence one longer when the carry runs out at the top:
\* the last 0 becomes 1 and the 1s after it become 0.
IncBits(bits) ==
    LET n     == Len(bits)
        zeros == { i \in 1..n : bits[i] = 0 }
    IN  IF zeros = {} THEN <<1>> \o [i \in 1..n |-> 0]
        ELSE LET z == CHOOSE i \in zeros : \A j \in zeros : j <= i
             IN  [i \in 1..n |-> IF i < z THEN bits[i]
                                 ELSE IF i = z THEN 1 ELSE 0]

\* A significand rounded up: renormalised when it overflows to 2^53.
RoundUp(bits, ex) ==
    LET inc == IncBits(bits)
    IN  IF Len(inc) > Len(bits)
        THEN [kind |-> "pos", e |-> ex + 1, m |-> SubSeq(inc, 1, Len(bits))]
        ELSE [kind |-> "pos", e |-> ex, m |-> inc]

\* Largest w with b * 2^w <= a (a >= b).
RECURSIVE ShiftDown(_, _)
ShiftDown(a, b) == IF 2 * b <= a THEN 1 + ShiftDown(a, 2 * b) ELSE 0

\* Least u with a * 2^u >= b (a >= 1).
RECURSIVE ShiftUp(_, _)
ShiftUp(a, b) == IF a >= b THEN 0 ELSE 1 + ShiftUp(2 * a, b)

\* a / b of two ints below 2^18 (true division): the correctly rounded
\* binary64.
\* The operands are scaled so that 1 <= an / bn < 2; the quotient's leading
\* bit is then 1 and the 52 bits after it come from long division.
FloatDiv(a, b) ==
    IF a = 0 THEN DblZero
    ELSE LET w    == IF a >= b THEN ShiftDown(a, b) ELSE 0
             u    == IF a >= b THEN 0 ELSE ShiftUp(a, b)
             an   == a * Pow2(u)
             bn   == b * Pow2(w)
             d    == DivLimbs(an - bn, bn, 4)
             bits == <<1>> \o d.q
             expo == w - u
         IN  IF 2 * d.r > bn \/ (2 * d.r = bn /\ bits[MantDig] = 1)
             THEN RoundUp(bits, expo)
             ELSE [kind |-> "pos", e |-> expo, m |-> bits]

\* Binary digits of c, most significant first (none for 0).
RECURSIVE BinOf(_)
BinOf(c) == IF c = 0 THEN << >> ELSE BinOf(c \div 2) \o <<c % 2>>

\* Limbs k..1 of bits times t plus the carry from the limbs below: the
\* product's bits, the last carry (with the leading 1's product) on top.
RECURSIVE MulLimbs(_, _, _, _)
MulLimbs(bits, k, t, carry) ==
    IF k = 0 THEN BinOf(t * bits[1] + carry)
    ELSE LET s == t * LimbOf(bits, k) + carry
         IN  MulLimbs(bits, k - 1, t, s \div Limb) \o LimbToBits(s % Limb)

\* bits * t, exactly.
MulBits(bits, t) == MulLimbs(bits, 4, t, 0)

\* t * d of an int t >= 0 and a float d >= 0: the exact product rounded to
\* 53 bits, ties to even.
FloatMulInt(t, d) ==
    IF d.kind = "zero" \/ t = 0 THEN DblZero
    ELSE LET prod   == MulBits(d.m, t)
             k      == Len(prod) - MantDig
             kept   == SubSeq(prod, 1, MantDig)
             guard  == IF k >= 1 THEN prod[MantDig + 1] ELSE 0
             sticky == \E j \in (MantDig + 2) .. Len(prod) : prod[j] = 1
             expo   == d.e + k
         IN  IF guard = 1 /\ (sticky \/ kept[MantDig] = 1)
             THEN RoundUp(kept, expo)
             ELSE [kind |-> "pos", e |-> expo, m |-> kept]

\* v >= d for an int v >= 0 and a float d >= 0; Python compares an int with
\* a float by value, without rounding the int.
IntGeDbl(v, d) ==
    IF d.kind = "zero" THEN TRUE
    ELSE IF d.e < 0 THEN v >= 1
    ELSE IF d.e > 30 THEN FALSE
    ELSE LET whole == IntOf(SubSeq(d.m, 1, d.e + 1))
             frac  == \E j \in (d.e + 2) .. MantDig : d.m[j] = 1
         IN  v > whole \/ (v = whole /\ ~frac)

\* Lexicographic order of two bit sequences of one length: decided at the
\* first position where they differ.
BitsGt(x, y) ==
    LET diff == { i \in 1..Len(x) : x[i] # y[i] }
    IN  /\ diff # {}
        /\ LET i == CHOOSE i \in diff : \A j \in diff : i <= j
           IN  x[i] > y[i]

DblRank(d) == IF d.kind = "neg" THEN 0 ELSE IF d.kind = "zero" THEN 1 ELSE 2

\* x > y of two floats (or the int -1).
DblGt(x, y) ==
    IF DblRank(x) # DblRank(y) THEN DblRank(x) > DblRank(y)
    ELSE IF x.kind # "pos" THEN FALSE
    ELSE IF x.e # y.e THEN x.e > y.e
    ELSE BitsGt(x.m, y.m)

\* x == y of two floats.
DblEq(x, y) == x = y


(***************************************************************************)
(* State of one invocation of _calculate_dhondt(lists, total_seats,        *)
(* threshold_percent).                                                     *)
(*   results           the dicts built by the first loop, in input order   *)
(*   eligible_results  references (positions in results) of the dicts      *)
(*                     that pass the threshold, in results order           *)
(*   round             iterations of `for _ in range(total_seats)` done    *)
(*   max_quotient, candidates, winner_index                                *)
(*                     the locals of the last round; candidates and        *)
(*                     winner_index are positions in eligible_results      *)
(*                     (1-based here, 0-based in the code)                 *)
(*   final_results     references appended by the merge loop               *)
(*   retval            what the call returned, once it has                 *)
(*   exc               the exception the call raised, "" for none          *)
(***************************************************************************)
VARIABLES lists, total_seats, threshold_percent, pc, results, total_votes,
          threshold_votes, eligible_results, round, max_quotient,
          candidates, winner_index, final_results, retval, exc

\* Further calls of the function, each with a frame of its own (see
\* Frame below): the calls made one after another, or side by side.
VARIABLES calls

\* The aggregate voting workflow of DhondtService over the database:
\*   submissions          table voting_submissions, rows in insertion order
\*   next_submission_id   its id sequence
\*   calculations         table calculations, each row with the rows of
\*                        calculation_results that belong to it
\*   next_calculation_id  its id sequence
\*   aggregate_call       the calculate_aggregate request under way, between
\*                        its query and its insert
\*   response             what the last finished operation returned or
\*                        raised
VARIABLES submissions, next_submission_id, calculations, next_calculation_id,
          aggregate_call, response

store == << submissions, next_submission_id, calculations,
            next_calculation_id, aggregate_call, response >>

\* What a call of _calculate_dhondt has no access to.
outside == << calls, store >>

vars == << outside, lists, total_seats, threshold_percent, pc, results,
           total_votes, threshold_votes, eligible_results, round,
           max_quotient, candidates, winner_index, final_results, retval,
           exc >>

NoReturn == [returned |-> FALSE, value |-> << >>]

Return(value) == [returned |-> TRUE, value |-> value]

NoResponse == [op |-> "none"]

NoAggregateCall == [pc |-> "idle"]

\* An empty database and no request.
NoService ==
    /\ submissions = << >>
    /\ next_submission_id = 1
    /\ calculations = << >>
    /\ next_calculation_id = 1
    /\ aggregate_call = NoAggregateCall
    /\ response = NoResponse

\* A call with votes of the size of an election: three lists, five seats,
\* the default threshold.
ElectionLists ==
    << [name |-> PartyNames[1], votes |-> 100000],
       [name |-> PartyNames[2], votes |-> 5000],
       [name |-> PartyNames[3], votes |-> 2000] >>

\* Two candidates, the second with exactly 28 % of the 25 votes.
OnThresholdLists ==
    << [name |-> PartyNames[1], votes |-> 18],
       [name |-> PartyNames[2], votes |-> 7] >>

Init ==
    /\ \/ /\ lists \in InputLists
          /\ total_seats \in SeatCounts
          /\ threshold_percent \in ThresholdPercents
       \/ /\ lists = ElectionLists
          /\ total_seats = 5
          /\ threshold_percent = DefaultThresholdPercent
       \/ /\ lists = OnThresholdLists
          /\ total_seats = 3
          /\ threshold_percent = 28
    /\ pc = "validate"
    /\ results = << >>
    /\ total_votes = 0
    /\ threshold_votes = DblUnset
    /\ eligible_results = << >>
    /\ round = 0
    /\ max_quotient = DblUnset
    /\ candidates = << >>
    /\ winner_index = 0
    /\ final_results = << >>
    /\ retval = NoReturn
    /\ exc = ""
    /\ calls = << >>
    /\ NoService

\* sum(r['votes'] for r in results)
RECURSIVE SumVotes(_)
SumVotes(rs) ==
    IF rs = << >> THEN 0 ELSE rs[1].votes + SumVotes(Tail(rs))

\* An iteration that appends without looking at the sign of the votes.
ValidateUnchecked ==
    /\ pc = "validate"
    /\ Len(results) < Len(lists)
    /\ LET lst == lists[Len(results) + 1]
       IN  results' = Append(results,
               [name |-> lst.name, votes |-> lst.votes, seats |-> 0])
    /\ UNCHANGED << outside, lists, total_seats, threshold_percent,
                    pc, total_votes,
                    threshold_votes, eligible_results, round, max_quotient,
                    candidates, winner_index, final_results, retval, exc >>

\* An iteration that keeps the caller's dict instead of building one: it
\* sets lst['seats'] = 0 and appends lst itself.
ValidateInPlace ==
    /\ pc = "validate"
    /\ Len(results) < Len(lists)
    /\ LET k   == Len(results) + 1
           lst == [name |-> lists[k].name, votes |-> lists[k].votes,
                   seats |-> 0]
       IN  IF lists[k].votes < 0
           THEN /\ exc' = "ValueError"
                /\ pc' = "raised"
                /\ UNCHANGED << results, lists >>
           ELSE /\ lists' = [lists EXCEPT ![k] = lst]
                /\ results' = Append(results, lst)
                /\ UNCHANGED << pc, exc >>
    /\ UNCHANGED << outside, total_seats, threshold_percent, total_votes,
                    threshold_votes, eligible_results, round, max_quotient,
                    candidates, winner_index, final_results, retval >>

\* One iteration of `for lst in lists`: a negative vote count raises,
\* anything else appends a fresh dict with seats 0.
Validate ==
    /\ pc = "validate"
    /\ Len(results) < Len(lists)
    /\ LET lst == lists[Len(results) + 1]
       IN  IF lst.votes < 0
           THEN /\ exc' = "ValueError"
                /\ pc' = "raised"
                /\ UNCHANGED results
           ELSE /\ results' = Append(results,
                       [name |-> lst.name, votes |-> lst.votes, seats |-> 0])
                /\ UNCHANGED << pc, exc >>
    /\ UNCHANGED << outside, lists, total_seats, threshold_percent,
                    total_votes,
                    threshold_votes, eligible_results, round, max_quotient,
                    candidates, winner_index, final_results, retval >>

\* total_votes = sum(...) without the early return on 0.
TotalVotesNoZeroReturn ==
    /\ pc = "validate"
    /\ Len(results) = Len(lists)
    /\ total_votes' = SumVotes(results)
    /\ pc' = "threshold"
    /\ UNCHANGED << outside, lists, total_seats, threshold_percent, results,
                    threshold_votes, eligible_results, round, max_quotient,
                    candidates, winner_index, final_results, retval, exc >>

\* total_votes = sum(...) that refuses an empty list, as calculate_aggregate
\* refuses an empty aggregation.
TotalVotesRejectsEmpty ==
    /\ pc = "validate"
    /\ Len(results) = Len(lists)
    /\ total_votes' = SumVotes(results)
    /\ IF results = << >>
       THEN /\ exc' = "ValueError"
            /\ pc' = "raised"
            /\ UNCHANGED retval
       ELSE IF total_votes' = 0
       THEN /\ retval' = Return(results)
            /\ pc' = "done"
            /\ UNCHANGED exc
       ELSE /\ pc' = "threshold"
            /\ UNCHANGED << retval, exc >>
    /\ UNCHANGED << outside, lists, total_seats, threshold_percent, results,
                    threshold_votes, eligible_results, round, max_quotient,
                    candidates, winner_index, final_results >>

\* total_votes = sum(...); `if total_votes == 0: return results`.
TotalVotes ==
    /\ pc = "validate"
    /\ Len(results) = Len(lists)
    /\ total_votes' = SumVotes(results)
    /\ IF total_votes' = 0
       THEN /\ retval' = Return(results)
            /\ pc' = "done"
       ELSE /\ pc' = "threshold"
            /\ UNCHANGED retval
    /\ UNCHANGED << outside, lists, total_seats, threshold_percent, results,
                    threshold_votes, eligible_results, round, max_quotient,
                    candidates, winner_index, final_results, exc >>

\* The percentage taken for a fraction: total_votes * threshold_percent.
ThresholdVotesNotDivided(tv, percent) == FloatMulInt(tv, FloatDiv(percent, 1))

\* total_votes * (threshold_percent / 100)
ThresholdVotes(tv, percent) == FloatMulInt(tv, FloatDiv(percent, 100))

\* The comparison the other way round: r['votes'] < threshold_votes.
BelowThreshold(votes, thr) == ~IntGeDbl(votes, thr)

\* r['votes'] >= threshold_votes
PassesThreshold(votes, thr) == IntGeDbl(votes, thr)

\* A filter that lets every dict through.
EligibleRefsAll(rs, thr, j) == [i \in 1..Len(rs) |-> i]

\* [r for r in results if r['votes'] >= threshold_votes], as references.
RECURSIVE EligibleRefs(_, _, _)
EligibleRefs(rs, thr, j) ==
    IF j > Len(rs) THEN << >>
    ELSE IF PassesThreshold(rs[j].votes, thr)
         THEN <<j>> \o EligibleRefs(rs, thr, j + 1)
         ELSE EligibleRefs(rs, thr, j + 1)

\* A threshold block that raises when nobody is eligible.
ThresholdRaises ==
    /\ pc = "threshold"
    /\ threshold_votes' = ThresholdVotes(total_votes, threshold_percent)
    /\ eligible_results' = EligibleRefs(results, threshold_votes', 1)
    /\ IF eligible_results' = << >>
       THEN /\ exc' = "ValueError"
            /\ pc' = "raised"
       ELSE /\ pc' = "rounds"
            /\ UNCHANGED exc
    /\ UNCHANGED << outside, lists, total_seats, threshold_percent, results,
                    total_votes, round, max_quotient, candidates,
                    winner_index, final_results, retval >>

\* The threshold block: `if not eligible_results: return results`.
Threshold ==
    /\ pc = "threshold"
    /\ threshold_votes' = ThresholdVotes(total_votes, threshold_percent)
    /\ eligible_results' = EligibleRefs(results, threshold_votes', 1)
    /\ IF eligible_results' = << >>
       THEN /\ retval' = Return(results)
            /\ pc' = "done"
       ELSE /\ pc' = "rounds"
            /\ UNCHANGED retval
    /\ UNCHANGED << outside, lists, total_seats, threshold_percent, results,
                    total_votes, round, max_quotient, candidates,
                    winner_index, final_results, exc >>

\* votes / divisor for every pair a round can meet, computed once.
QuotientTable ==
    [a \in { v \in Votes : v >= 0 }, b \in 1 .. (MaxSeats + 1) |->
        FloatDiv(a, b)]

\* A division that truncates: votes // (seats + 1).
QuotientTruncated(r) == FloatDiv(r.votes \div (r.seats + 1), 1)

\* result['votes'] / (result['seats'] + 1)
Quotient(r) ==
    IF << r.votes, r.seats + 1 >> \in DOMAIN QuotientTable
    THEN QuotientTable[r.votes, r.seats + 1]
    ELSE FloatDiv(r.votes, r.seats + 1)

\* The `for i, result in enumerate(eligible_results)` loop from position i
\* on, with max_quotient mq and candidates cands so far.
RECURSIVE ScanQuotients(_, _, _, _, _)
ScanQuotients(rs, er, i, mq, cands) ==
    IF i > Len(er) THEN [max_quotient |-> mq, candidates |-> cands]
    ELSE LET quotient == Quotient(rs[er[i]])
         IN  IF DblGt(quotient, mq)
             THEN ScanQuotients(rs, er, i + 1, quotient, <<i>>)
             ELSE IF DblEq(quotient, mq)
             THEN ScanQuotients(rs, er, i + 1, mq, Append(cands, i))
             ELSE ScanQuotients(rs, er, i + 1, mq, cands)

\* A tie-breaker that lets a later candidate with as many votes win (>=).
RECURSIVE TieBreakLastWins(_, _, _, _, _, _)
TieBreakLastWins(rs, er, cands, k, max_votes, winner) ==
    IF k > Len(cands) THEN winner
    ELSE IF rs[er[cands[k]]].votes >= max_votes
         THEN TieBreakLastWins(rs, er, cands, k + 1,
                               rs[er[cands[k]]].votes, cands[k])
         ELSE TieBreakLastWins(rs, er, cands, k + 1, max_votes, winner)

\* The `for idx in candidates` loop of the tie-breaker from position k on.
RECURSIVE TieBreak(_, _, _, _, _, _)
TieBreak(rs, er, cands, k, max_votes, winner) ==
    IF k > Len(cands) THEN winner
    ELSE IF rs[er[cands[k]]].votes > max_votes
         THEN TieBreak(rs, er, cands, k + 1, rs[er[cands[k]]].votes, cands[k])
         ELSE TieBreak(rs, er, cands, k + 1, max_votes, winner)

\* A winner taken without looking at the votes: the first on the quotient.
WinnerFirstCandidate(rs, er, cands) == cands[1]

\* The position in eligible_results whose dict gets the seat.
Winner(rs, er, cands) ==
    IF Len(cands) = 1 THEN cands[1]
    ELSE TieBreak(rs, er, cands, 1, -1, cands[1])

\* One iteration of `for _ in range(total_seats)`.
Round ==
    /\ pc = "rounds"
    /\ round < total_seats
    /\ LET scan == ScanQuotients(results, eligible_results, 1,
                                 DblMinusOne, << >>)
       IN  /\ max_quotient' = scan.max_quotient
           /\ candidates' = scan.candidates
           /\ IF scan.candidates # << >>
              THEN LET w == Winner(results, eligible_results, scan.candidates)
                   IN  /\ winner_index' = w
                       /\ results' = [results EXCEPT
                              ![eligible_results[w]].seats = @ + 1]
              ELSE UNCHANGED << winner_index, results >>
    /\ round' = round + 1
    /\ UNCHANGED << outside, lists, total_seats, threshold_percent,
                    pc, total_votes,
                    threshold_votes, eligible_results, final_results,
                    retval, exc >>

\* next(er for er in eligible_results if er['name'] == name), a reference.
RECURSIVE FirstNamed(_, _, _, _)
FirstNamed(rs, er, name, i) ==
    IF rs[er[i]].name = name THEN er[i] ELSE FirstNamed(rs, er, name, i + 1)

\* A merge that keeps the eligible dicts only.
MergeRefsEligibleOnly(rs, er) == er

\* The merge loop: final_results as references into results.
MergeRefs(rs, er) ==
    LET eligible_names == { rs[er[i]].name : i \in 1..Len(er) }
    IN  [j \in 1..Len(rs) |->
            IF rs[j].name \in eligible_names
            THEN FirstNamed(rs, er, rs[j].name, 1)
            ELSE j]

\* The dicts a list of references points at.
Deref(rs, refs) == [j \in 1..Len(refs) |-> rs[refs[j]]]

\* range(total_seats) is exhausted (at once when total_seats <= 0): merge
\* and `return final_results`.
Merge ==
    /\ pc = "rounds"
    /\ round >= total_seats
    /\ final_results' = MergeRefs(results, eligible_results)
    /\ retval' = Return(Deref(results, final_results'))
    /\ pc' = "done"
    /\ UNCHANGED << outside, lists, total_seats, threshold_percent, results,
                    total_votes, threshold_votes, eligible_results, round,
                    max_quotient, candidates, winner_index, exc >>

Next == Validate \/ TotalVotes \/ Threshold \/ Round \/ Merge

Spec == Init /\ [][Next]_vars

(***************************************************************************)
(* The same function as a value: a frame holds the arguments and the       *)
(* locals of one call, StepFrame advances it by one block, and             *)
(* CalculateDhondt runs a fresh frame to its return or its exception.      *)
(***************************************************************************)
Frame(l, seats, percent) ==
    [ lists |-> l, total_seats |-> seats, threshold_percent |-> percent,
      pc |-> "validate", results |-> << >>, total_votes |-> 0,
      threshold_votes |-> DblUnset, eligible_results |-> << >>, round |-> 0,
      max_quotient |-> DblUnset, candidates |-> << >>, winner_index |-> 0,
      final_results |-> << >>, retval |-> NoReturn, exc |-> "" ]

Finished(f) == f.pc \in {"done", "raised"}

\* One iteration of `for lst in lists`.
ValidateFrame(f) ==
    LET lst == f.lists[Len(f.results) + 1]
    IN  IF lst.votes < 0
        THEN [f EXCEPT !.exc = "ValueError", !.pc = "raised"]
        ELSE [f EXCEPT !.results = Append(@,
                  [name |-> lst.name, votes |-> lst.votes, seats |-> 0])]

\* total_votes = sum(...); `if total_votes == 0: return results`.
TotalVotesFrame(f) ==
    LET tv == SumVotes(f.results)
    IN  IF tv = 0
        THEN [f EXCEPT !.total_votes = tv, !.retval = Return(f.results),
                       !.pc = "done"]
        ELSE [f EXCEPT !.total_votes = tv, !.pc = "threshold"]

\* The threshold block.
ThresholdFrame(f) ==
    LET thr == ThresholdVotes(f.total_votes, f.threshold_percent)
        er  == EligibleRefs(f.results, thr, 1)
    IN  IF er = << >>
        THEN [f EXCEPT !.threshold_votes = thr, !.eligible_results = er,
                       !.retval = Return(f.results), !.pc = "done"]
        ELSE [f EXCEPT !.threshold_votes = thr, !.eligible_results = er,
                       !.pc = "rounds"]

\* A round that gives a seat to every candidate tied at the maximum.
RoundFrameAllTied(f) ==
    LET scan == ScanQuotients(f.results, f.eligible_results, 1,
                              DblMinusOne, << >>)
        tied == { f.eligible_results[scan.candidates[c]] :
                      c \in 1..Len(scan.candidates) }
    IN  [f EXCEPT !.max_quotient = scan.max_quotient,
                  !.candidates = scan.candidates,
                  !.results = [j \in 1..Len(f.results) |->
                      IF j \in tied
                      THEN [f.results[j] EXCEPT !.seats = @ + 1]
                      ELSE f.results[j]],
                  !.round = @ + 1]

\* One iteration of `for _ in range(total_seats)`.
RoundFrame(f) ==
    LET scan == ScanQuotients(f.results, f.eligible_results, 1,
                              DblMinusOne, << >>)
    IN  IF scan.candidates # << >>
        THEN LET w == Winner(f.results, f.eligible_results, scan.candidates)
             IN  [f EXCEPT !.max_quotient = scan.max_quotient,
                           !.candidates = scan.candidates,
                           !.winner_index = w,
                           !.results[f.eligible_results[w]].seats = @ + 1,
                           !.round = @ + 1]
        ELSE [f EXCEPT !.max_quotient = scan.max_quotient,
                       !.candidates = scan.candidates,
                       !.round = @ + 1]

\* The merge loop and `return final_results`.
MergeFrame(f) ==
    LET refs == MergeRefs(f.results, f.eligible_results)
    IN  [f EXCEPT !.final_results = refs,
                  !.retval = Return(Deref(f.results, refs)),
                  !.pc = "done"]

\* The block a frame is at, executed.
StepFrame(f) ==
    IF f.pc = "validate"
    THEN IF Len(f.results) < Len(f.lists) THEN ValidateFrame(f)
         ELSE TotalVotesFrame(f)
    ELSE IF f.pc = "threshold" THEN ThresholdFrame(f)
    ELSE IF f.pc = "rounds"
    THEN IF f.round < f.total_seats THEN RoundFrame(f) ELSE MergeFrame(f)
    ELSE f

RECURSIVE RunFrame(_)
RunFrame(f) == IF Finished(f) THEN f ELSE RunFrame(StepFrame(f))

\* _calculate_dhondt(l, seats, percent): the frame at its end.
CalculateDhondt(l, seats, percent) == RunFrame(Frame(l, seats, percent))

(***************************************************************************)
(* The function called again on a varied input.  A first call on          *)
(* (l, seats, percent) is followed by one more call, whole, on the same   *)
(* arguments with one candidate's votes raised, with the candidates in    *)
(* another order or with one more seat; calls holds the frames of both at *)
(* their end.                                                             *)
(***************************************************************************)
\* No call of the step machine above is under way.
NoCall ==
    /\ lists = << >>
    /\ total_seats = 0
    /\ threshold_percent = 0
    /\ pc = "idle"
    /\ results = << >>
    /\ total_votes = 0
    /\ threshold_votes = DblUnset
    /\ eligible_results = << >>
    /\ round = 0
    /\ max_quotient = DblUnset
    /\ candidates = << >>
    /\ winner_index = 0
    /\ final_results = << >>
    /\ retval = NoReturn
    /\ exc = ""

single == << lists, total_seats, threshold_percent, pc, results, total_votes,
             threshold_votes, eligible_results, round, max_quotient,
             candidates, winner_index, final_results, retval, exc >>

\* The votes a candidate can be raised to: the boundary values as well.
CompareVotes == { v \in Votes : v >= 0 }

CompareLists ==
    { l \in InputLists : \A k \in 1..Len(l) : l[k].votes \in 0..MaxVotes }

CompareSeats == 1 .. MaxSeats

\* No threshold, and one that candidates do fail.
ComparePercents == {0, 50}

InitCompare ==
    /\ NoCall
    /\ NoService
    /\ \E l \in CompareLists, seats \in CompareSeats,
          percent \in ComparePercents :
            calls = << Frame(l, seats, percent) >>

\* The first call, from its first line to its return.
FirstCall ==
    /\ Len(calls) = 1
    /\ ~Finished(calls[1])
    /\ calls' = << RunFrame(calls[1]) >>
    /\ UNCHANGED << single, store >>

\* l with the candidates in the order perm[1], perm[2], ...
Permuted(l, perm) == [i \in 1..Len(l) |-> l[perm[i]]]

Orders(n) == { perm \in [1..n -> 1..n] : \A i, j \in 1..n :
                                             perm[i] = perm[j] => i = j }

\* A second call: candidate k has more votes, everything else is the same.
RaisedVotesCall ==
    /\ Len(calls) = 1
    /\ Finished(calls[1])
    /\ \E k \in 1..Len(calls[1].lists), v \in CompareVotes :
          /\ v > calls[1].lists[k].votes
          /\ calls' = Append(calls,
                 CalculateDhondt([calls[1].lists EXCEPT ![k].votes = v],
                                 calls[1].total_seats,
                                 calls[1].threshold_percent))
    /\ UNCHANGED << single, store >>

\* A second call: the same candidates in another order.
PermutedCall ==
    /\ Len(calls) = 1
    /\ Finished(calls[1])
    /\ \E perm \in Orders(Len(calls[1].lists)) :
          /\ \E i \in DOMAIN perm : perm[i] # i
          /\ calls' = Append(calls,
                 CalculateDhondt(Permuted(calls[1].lists, perm),
                                 calls[1].total_seats,
                                 calls[1].threshold_percent))
    /\ UNCHANGED << single, store >>

\* A second call: one more seat to allocate, everything else is the same.
MoreSeatsCall ==
    /\ Len(calls) = 1
    /\ Finished(calls[1])
    /\ calls' = Append(calls,
           CalculateDhondt(calls[1].lists,
                           calls[1].total_seats + 1,
                           calls[1].threshold_percent))
    /\ UNCHANGED << single, store >>

NextCompare == FirstCall \/ RaisedVotesCall \/ PermutedCall \/ MoreSeatsCall

SpecCompare == InitCompare /\ [][NextCompare]_vars

(***************************************************************************)
(* Two calls side by side, as two requests served at once make them: each  *)
(* call has its arguments and its locals in a frame of its own, and a      *)
(* step runs one block of one call.  The second call is given the          *)
(* candidates of the first in reverse order, and a seat count of its own.  *)
(***************************************************************************)
CallLists == { l \in InputLists : Len(l) <= MaxCallLists }

CallSeats == 1 .. MaxCallSeats

CallPercents == {DefaultThresholdPercent, 50}

Reversed(l) == [i \in 1..Len(l) |-> l[Len(l) + 1 - i]]

InitConcurrent ==
    /\ NoCall
    /\ NoService
    /\ \E l \in CallLists, seats1 \in CallSeats, seats2 \in CallSeats,
          percent \in CallPercents :
            calls = << Frame(l, seats1, percent),
                       Frame(Reversed(l), seats2, percent) >>

\* One list for every call, as a class attribute or a default argument
\* would be: a call finds in it what the first call has put there.
ResultsOfFirstCall(p) == calls[1].results

\* `results = []`: the list a call appends to is made by that call.
ResultsOf(p) == calls[p].results

\* Call p runs its next block.
StepCall(p) ==
    /\ ~Finished(calls[p])
    /\ calls' = [calls EXCEPT
           ![p] = StepFrame([calls[p] EXCEPT !.results = ResultsOf(p)])]
    /\ UNCHANGED << single, store >>

NextConcurrent == \E p \in DOMAIN calls : StepCall(p)

SpecConcurrent == InitConcurrent /\ [][NextConcurrent]_vars

(***************************************************************************)
(* The aggregate voting workflow: submit_votes, get_aggregated_votes,      *)
(* clear_submissions and calculate_aggregate over the tables               *)
(* voting_submissions and calculations.  A repository function is one      *)
(* database transaction and one step here; calculate_aggregate is two,     *)
(* its query and its insert, and other requests may come between them.     *)
(* A party is named by its name: parties.name is unique and party_id       *)
(* stands for it.                                                          *)
(***************************************************************************)
\* Table parties: Lista A .. Lista J.
RegisteredParties == { PartyNames[i] : i \in DOMAIN PartyNames }

\* The parties that votes are submitted for: two of the registered ones.
ServiceParties == { PartyNames[1], PartyNames[2] }

\* A name that is in no row of parties.
UnregisteredParty == "Lista K"

\* The items insert_voting_submissions can be handed: those of a
\* VotingSubmissionRequest, with no votes or MaxBallot votes, and one for
\* each check of its loop (no party name, negative votes, a party that is
\* not registered), and one with no party name and negative votes.
BatchItems ==
    [party_name : ServiceParties, votes : {0, MaxBallot}]
        \cup [party_name : {"", UnregisteredParty}, votes : {0}]
        \cup [party_name : {PartyNames[1], ""}, votes : {-1}]

Batches == UNION { [1..n -> BatchItems] : n \in 1..MaxBatch }

\* The `for submission in submissions` loop of insert_voting_submissions
\* from item i on: rows added to the session so far, ids taken by flush.
RECURSIVE InsertSubmissions(_, _, _, _)
InsertSubmissions(batch, i, next_id, added) ==
    IF i > Len(batch)
    THEN [status |-> "commit", added |-> added, next_id |-> next_id]
    ELSE LET submission == batch[i]
         IN  IF submission.party_name = ""
             THEN InsertSubmissions(batch, i + 1, next_id, added)
             ELSE IF submission.votes < 0
                     \/ submission.party_name \notin RegisteredParties
             THEN [status |-> "ValueError", added |-> << >>,
                   next_id |-> next_id]
             ELSE InsertSubmissions(batch, i + 1, next_id + 1,
                      Append(added, [id |-> next_id,
                                     party_name |-> submission.party_name,
                                     votes |-> submission.votes]))

Ids(rows) == [i \in 1..Len(rows) |-> rows[i].id]

\* submit_votes: insert_voting_submissions commits every row or, on a
\* ValueError, rolls back; the id sequence keeps what flush has taken.
SubmitBatch(batch) ==
    /\ next_submission_id + Len(batch) <= MaxSubmissions + 1
    /\ LET done == InsertSubmissions(batch, 1, next_submission_id, << >>)
       IN  /\ next_submission_id' = done.next_id
           /\ IF done.status = "commit"
              THEN /\ submissions' = submissions \o done.added
                   /\ response' =
                          [op |-> "submit_votes", status |-> "ok",
                           submission_ids |-> Ids(done.added),
                           total_submissions |-> Len(done.added)]
              ELSE /\ UNCHANGED submissions
                   /\ response' = [op |-> "submit_votes",
                                   status |-> done.status]
    /\ UNCHANGED << single, calls, calculations, next_calculation_id,
                    aggregate_call >>

SubmitVotes == \E batch \in Batches : SubmitBatch(batch)

\* A delete with a filter: only the submissions of the first party go.
ClearSubmissionsOfOneParty ==
    /\ submissions' = SelectSeq(submissions,
                           LAMBDA row : row.party_name # PartyNames[1])
    /\ response' = [op |-> "clear_submissions", status |-> "ok",
                    deleted_count |-> Len(submissions) - Len(submissions')]
    /\ UNCHANGED << single, calls, next_submission_id, calculations,
                    next_calculation_id, aggregate_call >>

\* clear_submissions: db.query(VotingSubmission).delete() and commit.
ClearSubmissions ==
    /\ submissions' = << >>
    /\ response' = [op |-> "clear_submissions", status |-> "ok",
                    deleted_count |-> Len(submissions)]
    /\ UNCHANGED << single, calls, next_submission_id, calculations,
                    next_calculation_id, aggregate_call >>

\* An aggregate that keeps the votes of the last row of a party instead of
\* adding the rows up.
LastByParty(rows, party) ==
    LET at == { i \in 1..Len(rows) : rows[i].party_name = party }
    IN  IF at = {} THEN 0
        ELSE rows[CHOOSE i \in at : \A j \in at : j <= i].votes

\* func.sum(VotingSubmission.votes) of the rows of one party.
RECURSIVE SumByParty(_, _)
SumByParty(rows, party) ==
    IF rows = << >> THEN 0
    ELSE (IF rows[1].party_name = party THEN rows[1].votes ELSE 0)
             + SumByParty(Tail(rows), party)

\* An outer join: a row for every party, with or without submissions.
GroupByPartyOuterJoin(rows) ==
    { [party_name |-> party, total_votes |-> SumByParty(rows, party)] :
        party \in ServiceParties }

\* The join of parties with voting_submissions grouped by Party.name: one
\* row per party that has a submission.
GroupByParty(rows) ==
    { [party_name |-> party, total_votes |-> SumByParty(rows, party)] :
        party \in { q \in RegisteredParties :
                      \E i \in 1..Len(rows) : rows[i].party_name = q } }

\* The rows of a query without ORDER BY come in any order.
AnyOrder(S) ==
    { q \in [1..Cardinality(S) -> S] :
        \A i, j \in 1..Cardinality(S) : q[i] = q[j] => i = j }

\* {party_name: int(total_votes) for ...}: a dict keeps its keys in the
\* order of their first insertion, a repeated key keeps the last value.
RECURSIVE DictOf(_, _)
DictOf(rows, dict) ==
    IF rows = << >> THEN dict
    ELSE LET key  == rows[1].party_name
             item == [key |-> key, value |-> rows[1].total_votes]
             at   == { i \in 1..Len(dict) : dict[i].key = key }
         IN  IF at = {}
             THEN DictOf(Tail(rows), Append(dict, item))
             ELSE DictOf(Tail(rows),
                         [i \in 1..Len(dict) |->
                              IF i \in at THEN item ELSE dict[i]])

\* What get_aggregated_votes() can return for the table as it is.
AggregatedVotes(rows) ==
    { DictOf(q, << >>) : q \in AnyOrder(GroupByParty(rows)) }

\* get_voting_submissions_count: func.count(VotingSubmission.id).
VotingSubmissionsCount(rows) == Len(rows)

\* get_aggregated_votes (the repository query).
GetAggregatedVotes ==
    /\ \E aggregated \in AggregatedVotes(submissions) :
          response' = [op |-> "get_aggregated_votes", status |-> "ok",
                       aggregated |-> aggregated]
    /\ UNCHANGED << single, calls, submissions, next_submission_id,
                    calculations, next_calculation_id, aggregate_call >>

\* [{'name': party_name, 'votes': votes} for ... in aggregated.items()]
ListsData(aggregated) ==
    [i \in 1..Len(aggregated) |->
        [name |-> aggregated[i].key, votes |-> aggregated[i].value]]

\* calculation_id: None, or str(record_id).
None == << "None" >>

\* A calculate_aggregate that leaves calculation_id as it was built.
CalculationIdNotSet(n) == None

Str(n) == << "str", n >>

\* The lists calculate_aggregate can build from the table, and the seats a
\* CalculateAggregateRequest asks for (total_seats: Field(gt=0)): one, or
\* MaxRequestSeats.
AggregateLists ==
    { l \in UNION { [1..n -> [name : ServiceParties,
                              votes : 0 .. MaxSubmissions * MaxBallot]] :
                       n \in 1..Cardinality(ServiceParties) } :
        \A i, j \in 1..Len(l) : l[i].name = l[j].name => i = j }

RequestSeats == {1, MaxRequestSeats}

\* self._calculate_dhondt(lists_data, request.total_seats) for each of
\* them.  Merged with the empty function, the table is computed once.
AggregateAllocations ==
    [l \in AggregateLists, seats \in RequestSeats |->
        CalculateDhondt(l, seats, DefaultThresholdPercent)] @@ << >>

\* calculate_aggregate up to `if request.save_result`: the query, the
\* allocation with the default threshold, the response without an id.
CalculateAggregate ==
    \E seats \in RequestSeats, save_result \in BOOLEAN,
       aggregated \in AggregatedVotes(submissions) :
        /\ aggregate_call = NoAggregateCall
        /\ IF aggregated = << >>
           THEN /\ response' = [op |-> "calculate_aggregate",
                                status |-> "ValueError"]
                /\ UNCHANGED aggregate_call
           ELSE LET lists_data == ListsData(aggregated)
                    call == AggregateAllocations[lists_data, seats]
                    calculation_response ==
                        [op |-> "calculate_aggregate", status |-> "ok",
                         total_seats |-> seats,
                         total_votes |-> SumVotes(call.retval.value),
                         results |-> call.retval.value,
                         calculation_id |-> None]
                IN  IF call.pc = "raised"
                    THEN /\ response' = [op |-> "calculate_aggregate",
                                         status |-> call.exc]
                         /\ UNCHANGED aggregate_call
                    ELSE IF save_result
                    THEN /\ Len(calculations) < MaxCalculations
                         /\ aggregate_call' =
                                [pc |-> "save", lists_data |-> lists_data,
                                 calculation_response |->
                                     calculation_response]
                         /\ UNCHANGED response
                    ELSE /\ response' = calculation_response
                         /\ UNCHANGED aggregate_call
        /\ UNCHANGED << single, calls, submissions, next_submission_id,
                        calculations, next_calculation_id >>

\* An insert that stores the results with seats only.
InsertResultsSeated(rs, i, added) ==
    [status |-> "commit", added |-> SelectSeq(rs, LAMBDA r : r.seats > 0)]

\* The `for result in results` loop of insert_calculation from result i
\* on: the rows of calculation_results added so far.
\* A loop that skips the results of parties that are not registered.
InsertResultsRegistered(rs, i, added) ==
    [status |-> "commit",
     added |-> SelectSeq(rs, LAMBDA r : r.name \in RegisteredParties)]

\* The session does not autoflush: the rows reach the tables at commit,
\* where a check or unique constraint they break fails the transaction.
RECURSIVE InsertResults(_, _, _)
InsertResults(rs, i, added) ==
    IF i > Len(rs)
    THEN IF \/ \E j \in 1..Len(added) :
                  added[j].votes < 0 \/ added[j].seats < 0
            \/ \E j, k \in 1..Len(added) :
                  j # k /\ added[j].name = added[k].name
         THEN [status |-> "ConnectionError", added |-> << >>]
         ELSE [status |-> "commit", added |-> added]
    ELSE IF rs[i].name = "" THEN InsertResults(rs, i + 1, added)
    ELSE IF rs[i].name \notin RegisteredParties
    THEN [status |-> "ValueError", added |-> << >>]
    ELSE InsertResults(rs, i + 1, Append(added, rs[i]))

\* insert_calculation: the checks, the calculation row (flush takes its
\* id), the result rows, and commit or rollback.
InsertCalculation(seats, votes, rs, next_id) ==
    IF seats <= 0 \/ votes < 0
    THEN [status |-> "ValueError", next_id |-> next_id]
    ELSE LET rows == InsertResults(rs, 1, << >>)
         IN  IF rows.status = "commit"
             THEN [status |-> "commit", next_id |-> next_id + 1,
                   record |-> [id |-> next_id, total_seats |-> seats,
                               total_votes |-> votes,
                               results |-> rows.added]]
             ELSE [status |-> rows.status, next_id |-> next_id + 1]

\* The rest of calculate_aggregate: _save_calculation, and the response
\* with the id of the stored calculation.
SaveCalculation ==
    /\ aggregate_call # NoAggregateCall
    /\ LET calculation == aggregate_call.calculation_response
           done == InsertCalculation(calculation.total_seats,
                                     calculation.total_votes,
                                     calculation.results,
                                     next_calculation_id)
       IN  /\ next_calculation_id' = done.next_id
           /\ IF done.status = "commit"
              THEN /\ calculations' = Append(calculations, done.record)
                   /\ response' = [calculation EXCEPT
                          !.calculation_id = Str(done.record.id)]
              ELSE /\ UNCHANGED calculations
                   /\ response' = [op |-> "calculate_aggregate",
                                   status |-> done.status]
    /\ aggregate_call' = NoAggregateCall
    /\ UNCHANGED << single, calls, submissions, next_submission_id >>

InitService ==
    /\ NoCall
    /\ calls = << >>
    /\ NoService

NextService ==
    \/ SubmitVotes
    \/ ClearSubmissions
    \/ GetAggregatedVotes
    \/ CalculateAggregate
    \/ SaveCalculation

SpecService == InitService /\ [][NextService]_vars

(***************************************************************************)
(* The repository called directly: insert_calculation takes any           *)
(* arguments, not only those calculate_aggregate builds.                  *)
(***************************************************************************)
RecordSeats == {0, 1}

RecordVotes == {-1, 0, 1}

ResultRow(name, votes, seats) ==
    [name |-> name, votes |-> votes, seats |-> seats]

\* Result lists: none, one of a registered party, the same followed by one
\* of a party that is not registered or by one with no name, and one a
\* constraint of the table refuses.
RecordResults ==
    { << >>,
      << ResultRow(PartyNames[1], 1, 1) >>,
      << ResultRow(PartyNames[1], 1, 1), ResultRow(UnregisteredParty, 0, 0) >>,
      << ResultRow(PartyNames[1], 1, 1), ResultRow("", 0, 0) >>,
      << ResultRow(PartyNames[1], 1, 1), ResultRow(PartyNames[1], 0, 0) >> }

\* insert_calculation(seats, votes, rs), answered with the record id or
\* with the exception raised.
InsertCalculationWith(seats, votes, rs) ==
    /\ next_calculation_id <= MaxRecords
    /\ LET done == InsertCalculation(seats, votes, rs, next_calculation_id)
       IN  /\ next_calculation_id' = done.next_id
           /\ IF done.status = "commit"
              THEN /\ calculations' = Append(calculations, done.record)
                   /\ response' = [op |-> "insert_calculation",
                                   status |-> "ok",
                                   record_id |-> done.record.id]
              ELSE /\ UNCHANGED calculations
                   /\ response' = [op |-> "insert_calculation",
                                   status |-> done.status]
    /\ UNCHANGED << single, calls, submissions, next_submission_id,
                    aggregate_call >>

InsertCalculationCall ==
    \E seats \in RecordSeats, votes \in RecordVotes, rs \in RecordResults :
        InsertCalculationWith(seats, votes, rs)

SpecRepository == InitService /\ [][InsertCalculationCall]_vars

(***************************************************************************)
(* Properties.  Arithmetic in the properties is exact: a threshold or a    *)
(* quotient is compared by cross-multiplying integers.                     *)
(***************************************************************************)
RECURSIVE SumSeats(_)
SumSeats(rs) ==
    IF rs = << >> THEN 0 ELSE rs[1].seats + SumSeats(Tail(rs))

Positions == 1 .. Len(lists)

NonNegativeInput == \A k \in Positions : lists[k].votes >= 0

InputTotal == SumVotes(lists)

\* votes >= total_votes * threshold_percent / 100, as rationals.
ReachesThreshold(votes) == votes * 100 >= InputTotal * threshold_percent

\* votes(a) / (seats(a) + 1) >= votes(b) / (seats(b) + 1), as rationals.
QuotientGe(a, b) == a.votes * (b.seats + 1) >= b.votes * (a.seats + 1)

\* The objects of results whose votes are >= threshold_votes.
AboveThreshold ==
    { j \in 1..Len(results) : IntGeDbl(results[j].votes, threshold_votes) }

\* One iteration of the allocation loop is taken.
RoundTaken == pc = "rounds" /\ round' = round + 1

\* The seat of the round goes to object w and to no other.
SeatGoesTo(w) == results' = [results EXCEPT ![w].seats = @ + 1]

\* C1: with non-negative votes, total_seats > 0, total_votes > 0 and some
\* candidate at or above total_votes * threshold_percent / 100, the seats of
\* the returned results sum to total_seats.
C1_Conservation ==
    ( /\ pc = "done"
      /\ NonNegativeInput
      /\ total_seats > 0
      /\ InputTotal > 0
      /\ \E k \in Positions : ReachesThreshold(lists[k].votes) )
    => SumSeats(retval.value) = total_seats

TiedAtMax ==
    { j \in AboveThreshold :
        \A i \in AboveThreshold : QuotientGe(results[j], results[i]) }

C4_ThresholdExclusion ==
    pc = "done" =>
        \A k \in Positions :
            ~ReachesThreshold(lists[k].votes) =>
                /\ \E i \in 1..Len(retval.value) :
                      /\ retval.value[i].name = lists[k].name
                      /\ retval.value[i].votes = lists[k].votes
                /\ \A i \in 1..Len(retval.value) :
                      retval.value[i].name = lists[k].name
                          => retval.value[i].seats = 0

\* Seats were distributed, and a candidate with votes got none of them for
\* being below the threshold.
C4_Witness ==
    /\ pc = "done"
    /\ round >= 1
    /\ SumSeats(retval.value) = total_seats
    /\ \E k \in Positions :
          /\ lists[k].votes > 0
          /\ ~ReachesThreshold(lists[k].votes)
          /\ retval.value[k].seats = 0

\* C5: with total_seats <= 0 the allocation fails and produces no result
\* list, whatever the candidates.
C5_NonPositiveSeatsRejected == total_seats <= 0 => pc # "done"

NegativePositions == { k \in Positions : lists[k].votes < 0 }

\* C6: with a negative vote count anywhere in the input the call raises
\* during the first loop: no round is taken, nothing is returned, and the
\* loop never gets past the first negative candidate.
C6_NegativeVotesRejected ==
    NegativePositions # {} =>
        /\ pc \in {"validate", "raised"}
        /\ (pc = "raised") = (exc = "ValueError")
        /\ round = 0
        /\ retval = NoReturn
        /\ \A k \in NegativePositions : Len(results) < k
        /\ \A j \in 1..Len(results) : results[j].seats = 0

\* The call raised on a negative candidate in the middle of the list, after
\* dicts had been built for the candidates before it.
C6_Witness ==
    /\ pc = "raised"
    /\ exc = "ValueError"
    /\ retval = NoReturn
    /\ Len(results) >= 1
    /\ Len(results) + 1 < Len(lists)

AllZeroVotes == \A k \in Positions : lists[k].votes = 0

\* C7: when every candidate has 0 votes the call returns every candidate
\* with 0 seats, for any total_seats and threshold_percent, and neither the
\* threshold nor a quotient is ever computed.
C7_ZeroVotes ==
    AllZeroVotes =>
        /\ pc \in {"validate", "done"}
        /\ exc = ""
        /\ threshold_votes = DblUnset
        /\ eligible_results = << >>
        /\ round = 0
        /\ max_quotient = DblUnset
        /\ pc = "done" =>
              /\ retval.returned
              /\ Len(retval.value) = Len(lists)
              /\ \A i \in 1..Len(retval.value) : retval.value[i].seats = 0

\* Two or more candidates without votes, seats to hand out and no threshold
\* to keep anyone out: everybody is returned with 0 seats.
C7_Witness ==
    /\ pc = "done"
    /\ Len(lists) >= 2
    /\ AllZeroVotes
    /\ total_seats >= 1
    /\ threshold_percent = 0
    /\ SumSeats(retval.value) = 0

NobodyReachesThreshold ==
    /\ NonNegativeInput
    /\ InputTotal > 0
    /\ \A k \in Positions : ~ReachesThreshold(lists[k].votes)

\* C8: with total_votes > 0 and no candidate at the threshold the call
\* returns, without an error and without a round, every candidate with 0
\* seats.
C8_NobodyEligible ==
    NobodyReachesThreshold =>
        /\ pc \in {"validate", "threshold", "done"}
        /\ exc = ""
        /\ round = 0
        /\ pc = "done" =>
              /\ retval.returned
              /\ Len(retval.value) = Len(lists)
              /\ \A i \in 1..Len(retval.value) : retval.value[i].seats = 0

\* Votes were cast, nobody reached the threshold, and the call returned.
C8_Witness ==
    /\ pc = "done"
    /\ NobodyReachesThreshold
    /\ total_seats >= 1
    /\ threshold_votes # DblUnset
    /\ Len(retval.value) >= 2

\* C9: an empty candidate list with total_seats > 0 returns the empty list
\* and raises nothing.
C9_EmptyListAccepted ==
    (lists = << >> /\ total_seats > 0) =>
        /\ pc \in {"validate", "done"}
        /\ exc = ""
        /\ pc = "done" => retval = Return(<< >>)

\* The call on an empty list with seats to hand out has returned [].
C9_Witness ==
    /\ pc = "done"
    /\ lists = << >>
    /\ total_seats > 0
    /\ retval = Return(<< >>)

DistinctNames ==
    \A j, k \in Positions : lists[j].name = lists[k].name => j = k

\* C10: with pairwise distinct names the returned list has exactly one
\* record per input candidate, carrying its name and its votes, on every
\* return path.
C10_OneRecordPerCandidate ==
    (pc = "done" /\ DistinctNames) =>
        /\ Len(retval.value) = Len(lists)
        /\ \A k \in Positions :
              /\ Cardinality({ i \in 1..Len(retval.value) :
                                 retval.value[i].name = lists[k].name }) = 1
              /\ \A i \in 1..Len(retval.value) :
                    retval.value[i].name = lists[k].name
                        => retval.value[i].votes = lists[k].votes

\* The merge ran after a round, over eligible and ineligible candidates.
C10_Witness ==
    /\ pc = "done"
    /\ round >= 1
    /\ final_results # << >>
    /\ Len(eligible_results) >= 1
    /\ Len(eligible_results) < Len(results)

\* C11: a call with total_seats > 0 that returns with some candidate at or
\* above total_votes * threshold_percent / 100 has performed exactly
\* total_seats rounds; each round adds exactly 1 to the seats of exactly one
\* such candidate and changes no other, so that after k rounds the seats sum
\* to k.
C11_ExactlyTotalSeatsRounds ==
    [][ /\ RoundTaken =>
              /\ \E w \in 1..Len(results) :
                    /\ ReachesThreshold(results[w].votes)
                    /\ SeatGoesTo(w)
              /\ SumSeats(results') = round'
        /\ ( /\ pc' = "done"
             /\ NonNegativeInput
             /\ total_seats > 0
             /\ InputTotal > 0
             /\ \E k \in Positions : ReachesThreshold(lists[k].votes) )
           => round' = total_seats
      ]_vars

\* The seats a finished call reports for the candidate called name.
SeatsOf(f, name) ==
    LET i == CHOOSE i \in 1..Len(f.retval.value) :
                 f.retval.value[i].name = name
    IN  f.retval.value[i].seats

\* Two calls were made on the same total_seats and threshold_percent and
\* both returned.
SameParameters ==
    /\ Len(calls) = 2
    /\ calls[1].pc = "done"
    /\ calls[2].pc = "done"
    /\ calls[1].total_seats = calls[2].total_seats
    /\ calls[1].threshold_percent = calls[2].threshold_percent

\* The second call's list is the first's with more votes for candidate k.
RaisedAt(k) ==
    /\ Len(calls[2].lists) = Len(calls[1].lists)
    /\ calls[2].lists[k].votes > calls[1].lists[k].votes
    /\ \A j \in 1..Len(calls[1].lists) :
          /\ calls[2].lists[j].name = calls[1].lists[j].name
          /\ j # k => calls[2].lists[j].votes = calls[1].lists[j].votes

\* C12: when two inputs differ only in that one candidate has more votes in
\* the second, that candidate has at least as many seats in the second
\* result as in the first.
C12_Monotonicity ==
    SameParameters =>
        \A k \in 1..Len(calls[1].lists) :
            RaisedAt(k) =>
                SeatsOf(calls[2], calls[1].lists[k].name)
                    >= SeatsOf(calls[1], calls[1].lists[k].name)

\* More votes brought a candidate more seats, at the expense of another.
C12_Witness ==
    /\ SameParameters
    /\ \E k \in 1..Len(calls[1].lists) :
          /\ RaisedAt(k)
          /\ SeatsOf(calls[2], calls[1].lists[k].name)
                > SeatsOf(calls[1], calls[1].lists[k].name)
          /\ SeatsOf(calls[1], calls[1].lists[k].name) > 0
          /\ \E j \in 1..Len(calls[1].lists) :
                SeatsOf(calls[2], calls[1].lists[j].name)
                    < SeatsOf(calls[1], calls[1].lists[j].name)

\* The position of the candidate called name in l.
PositionOf(l, name) == CHOOSE i \in 1..Len(l) : l[i].name = name

\* The second call's list holds the candidates of the first's, in some
\* other order.
Reordered ==
    /\ Len(calls[2].lists) = Len(calls[1].lists)
    /\ calls[2].lists # calls[1].lists
    /\ \A i \in 1..Len(calls[1].lists) :
          \E j \in 1..Len(calls[2].lists) :
              calls[2].lists[j] = calls[1].lists[i]

\* Candidates with equally many votes come in the same order in both lists.
KeepsOrderOfEqualVotes ==
    \A i, j \in 1..Len(calls[1].lists) :
        (i < j /\ calls[1].lists[i].votes = calls[1].lists[j].votes) =>
            PositionOf(calls[2].lists, calls[1].lists[i].name)
                < PositionOf(calls[2].lists, calls[1].lists[j].name)

SameSeatsByName ==
    \A i \in 1..Len(calls[1].lists) :
        SeatsOf(calls[2], calls[1].lists[i].name)
            = SeatsOf(calls[1], calls[1].lists[i].name)

\* C14 as stated: for any permutation of the candidate list each named
\* candidate receives the same number of seats.
C14_OrderIndependence ==
    (SameParameters /\ Reordered) => SameSeatsByName

\* C14, amended: for any permutation of the candidate list that keeps
\* candidates with equally many votes in their relative order, each named
\* candidate receives the same number of seats.
C14_OrderIndependenceUpToTies ==
    (SameParameters /\ Reordered /\ KeepsOrderOfEqualVotes)
        => SameSeatsByName

\* A reordered list with two candidates on equal votes kept in order: a
\* candidate with fewer votes than another has a seat, and the first call's
\* last round was decided among tied quotients.
C14_Witness ==
    /\ SameParameters
    /\ Reordered
    /\ KeepsOrderOfEqualVotes
    /\ \E i, j \in 1..Len(calls[1].lists) :
          i < j /\ calls[1].lists[i].votes = calls[1].lists[j].votes
    /\ \E i, j \in 1..Len(calls[1].lists) :
          /\ calls[1].lists[i].votes < calls[1].lists[j].votes
          /\ SeatsOf(calls[1], calls[1].lists[i].name) > 0
          /\ Len(calls[1].candidates) >= 2

\* The call on the election-sized example has returned.
ElectionDone ==
    /\ pc = "done"
    /\ lists = ElectionLists
    /\ total_seats = 5
    /\ threshold_percent = DefaultThresholdPercent

\* The seats of the returned results, in order.
ReturnedSeats == [i \in 1..Len(retval.value) |-> retval.value[i].seats]

\* C15 as stated: for [A:100000, B:5000, C:2000], 5 seats and threshold 3.0,
\* C is excluded by the threshold and the result is A:4, B:1, C:0.
C15_Example ==
    ElectionDone =>
        /\ eligible_results = << 1, 2 >>
        /\ ReturnedSeats = << 4, 1, 0 >>

\* C15, amended: for [A:100000, B:5000, C:2000], 5 seats and threshold 3.0
\* the threshold is 3210 votes, C is excluded by it and the result is A:5,
\* B:0, C:0.
C15_ExampleAllToA ==
    ElectionDone =>
        /\ total_votes = 107000
        /\ IntGeDbl(3210, threshold_votes)
        /\ ~IntGeDbl(3209, threshold_votes)
        /\ eligible_results = << 1, 2 >>
        /\ ReturnedSeats = << 5, 0, 0 >>
        /\ \A i \in 1..3 :
              /\ retval.value[i].name = ElectionLists[i].name
              /\ retval.value[i].votes = ElectionLists[i].votes

\* The example ran its five rounds and returned through the merge.
C15_Witness ==
    /\ ElectionDone
    /\ round = 5
    /\ final_results # << >>

\* C16: no step of a call, whether it ends in a return or in an exception,
\* changes the candidate records, the total_seats or the threshold_percent
\* it was given, or anything outside its own locals.
C16_SideEffectFree ==
    [][ /\ lists' = lists
        /\ total_seats' = total_seats
        /\ threshold_percent' = threshold_percent
        /\ outside' = outside
      ]_vars

\* A call handed out seats in dicts of its own: the records it was given
\* are as they were, name and votes and nothing else.
C16_Witness ==
    /\ pc = "done"
    /\ round >= 1
    /\ SumSeats(retval.value) >= 1
    /\ Len(lists) >= 2
    /\ \A k \in Positions : DOMAIN lists[k] = {"name", "votes"}

\* What call p returns, or raises, when it runs alone from first line to
\* last.
Alone(p) ==
    CalculateDhondt(calls[p].lists, calls[p].total_seats,
                    calls[p].threshold_percent)

RECURSIVE StoredVotes(_)
StoredVotes(I) ==
    IF I = {} THEN 0
    ELSE LET i == CHOOSE k \in I : TRUE
         IN  submissions[i].votes + StoredVotes(I \ {i})

StoredRowsOf(party) ==
    { i \in 1..Len(submissions) : submissions[i].party_name = party }

\* names[i] is mapped to votes[i]: the names are unique, they are the parties
\* with a stored submission, and each is mapped to the sum of the votes of
\* its stored submissions.
MapsStoredVotes(names, votes) ==
    /\ DOMAIN names = DOMAIN votes
    /\ \A i, j \in DOMAIN names : names[i] = names[j] => i = j
    /\ { names[i] : i \in DOMAIN names }
           = { submissions[i].party_name : i \in 1..Len(submissions) }
    /\ \A i \in DOMAIN names :
           /\ votes[i] = StoredVotes(StoredRowsOf(names[i]))
           /\ votes[i] >= 0

\* C18: whatever submit_votes and clear_submissions have done before,
\* get_aggregated_votes returns a mapping with unique keys, whose keys are
\* exactly the parties with a stored submission and whose values are the
\* sums of their stored votes, none negative; calculate_aggregate hands the
\* allocation this mapping, as the lists kept for the save and as the names
\* and votes of the results show.
C18_AggregatedVotes ==
    [][/\ GetAggregatedVotes =>
              MapsStoredVotes(
                  [i \in DOMAIN response'.aggregated |->
                       response'.aggregated[i].key],
                  [i \in DOMAIN response'.aggregated |->
                       response'.aggregated[i].value])
       /\ (CalculateAggregate /\ aggregate_call'.pc = "save") =>
              MapsStoredVotes(
                  [i \in DOMAIN aggregate_call'.lists_data |->
                       aggregate_call'.lists_data[i].name],
                  [i \in DOMAIN aggregate_call'.lists_data |->
                       aggregate_call'.lists_data[i].votes])
       /\ (/\ CalculateAggregate
           /\ aggregate_call'.pc = "idle"
           /\ response'.status = "ok") =>
              MapsStoredVotes(
                  [i \in DOMAIN response'.results |->
                       response'.results[i].name],
                  [i \in DOMAIN response'.results |->
                       response'.results[i].votes])]_vars

\* Two submissions of one party are stored; get_aggregated_votes has
\* returned their sum, and a calculate_aggregate that is about to save was
\* handed the same.
C18_Witness ==
    /\ Len(submissions) = 2
    /\ submissions[1].party_name = submissions[2].party_name
    /\ submissions[1].votes > 0
    /\ submissions[2].votes > 0
    /\ response.op = "get_aggregated_votes"
    /\ Len(response.aggregated) = 1
    /\ response.aggregated[1].value
           = submissions[1].votes + submissions[2].votes
    /\ aggregate_call.pc = "save"
    /\ aggregate_call.lists_data[1].votes = response.aggregated[1].value

\* C19: with no voting submission stored, calculate_aggregate raises
\* ValueError: there is no CalculationResponse, no save is started and
\* the calculations are as they were, whatever save_result is.
C19_NoSubmissionsValueError ==
    [][(CalculateAggregate /\ submissions = << >>) =>
           /\ response' = [op |-> "calculate_aggregate",
                           status |-> "ValueError"]
           /\ aggregate_call' = NoAggregateCall
           /\ calculations' = calculations
           /\ next_calculation_id' = next_calculation_id]_vars

\* A calculation was stored, so there were submissions; they have been
\* cleared since, and calculate_aggregate has raised ValueError.
C19_Witness ==
    /\ submissions = << >>
    /\ calculations # << >>
    /\ aggregate_call = NoAggregateCall
    /\ response = [op |-> "calculate_aggregate", status |-> "ValueError"]

\* C20: a calculate_aggregate that succeeds with save_result true adds
\* one record to the calculations, leaves the others, and returns the id
\* of the new record as calculation_id; with save_result false it adds
\* none and returns calculation_id None; neither of its steps changes the
\* stored submissions.
C20_SaveResult ==
    [][/\ (SaveCalculation /\ response'.status = "ok") =>
              /\ Len(calculations') = Len(calculations) + 1
              /\ SubSeq(calculations', 1, Len(calculations)) = calculations
              /\ \A i \in 1..Len(calculations) :
                     calculations[i].id
                         # calculations'[Len(calculations')].id
              /\ response'.calculation_id
                     = << "str", calculations'[Len(calculations')].id >>
              /\ submissions' = submissions
       /\ CalculateAggregate =>
              /\ calculations' = calculations
              /\ submissions' = submissions
              /\ (aggregate_call'.pc = "idle" /\ response'.status = "ok")
                     => response'.calculation_id = << "None" >>]_vars

\* calculate_aggregate has saved the allocation of the stored submissions
\* as the calculation with id 1 and returned that id.
C20_Witness ==
    /\ submissions # << >>
    /\ Len(calculations) = 1
    /\ calculations[1].id = 1
    /\ aggregate_call = NoAggregateCall
    /\ response.op = "calculate_aggregate"
    /\ response.status = "ok"
    /\ response.calculation_id = << "str", 1 >>
    /\ response.results = calculations[1].results

\* C21: a clear_submissions that has answered has deleted every stored
\* submission and returned how many there were; right after it the
\* submission count is 0 and the aggregated votes are the empty mapping;
\* the stored calculations are the same as before.
C21_ClearSubmissions ==
    [][(response' # response /\ response'.op = "clear_submissions") =>
           /\ submissions' = << >>
           /\ response'.status = "ok"
           /\ response'.deleted_count = Len(submissions)
           /\ VotingSubmissionsCount(submissions') = 0
           /\ AggregatedVotes(submissions') = { << >> }
           /\ calculations' = calculations
           /\ next_calculation_id' = next_calculation_id]_vars

\* Two stored submissions were cleared while a calculation was stored.
C21_Witness ==
    /\ response.op = "clear_submissions"
    /\ response.deleted_count = 2
    /\ submissions = << >>
    /\ calculations # << >>

(***************************************************************************)
(* The allocation as a whole.                                              *)
(***************************************************************************)
\* The seats returned for the candidate at position k.
Seats(k) == retval.value[k].seats

\* C22: in every allocation returned, for candidates i and j at or above
\* total_votes * threshold_percent / 100 with seats_i > 0, votes_i / seats_i
\* >= votes_j / (seats_j + 1) as exact rationals.
C22_Optimality ==
    pc = "done" =>
        \A i, j \in Positions :
            ( /\ ReachesThreshold(lists[i].votes)
              /\ ReachesThreshold(lists[j].votes)
              /\ Seats(i) > 0 )
            => lists[i].votes * (Seats(j) + 1) >= lists[j].votes * Seats(i)

\* C23: in every allocation returned, a candidate with more votes than
\* another has at least its seats; of two candidates with equal votes the
\* earlier has as many seats as the later, or one more.
C23_VoteOrder ==
    pc = "done" =>
        \A i, j \in Positions :
            /\ lists[i].votes > lists[j].votes => Seats(i) >= Seats(j)
            /\ (lists[i].votes = lists[j].votes /\ i < j)
                   => Seats(i) - Seats(j) \in {0, 1}

\* Two candidates with equal votes got seats that differ by one, and a
\* third with more votes got more than either.
C23_Witness ==
    /\ pc = "done"
    /\ \E i, j, k \in Positions :
          /\ i < j
          /\ lists[i].votes = lists[j].votes
          /\ Seats(i) = Seats(j) + 1
          /\ lists[k].votes > lists[i].votes
          /\ Seats(k) > Seats(i)

\* C25: with threshold_percent >= 0, whatever total_seats is, a candidate
\* with 0 votes has 0 seats in the allocation returned.
C25_ZeroVotesNoSeat ==
    (pc = "done" /\ threshold_percent >= 0) =>
        \A k \in Positions : lists[k].votes = 0 => Seats(k) = 0

\* With threshold_percent = 0 a candidate with 0 votes was eligible in
\* every one of several rounds, and all the seats went to others.
C25_Witness ==
    /\ pc = "done"
    /\ threshold_percent = 0
    /\ total_seats >= 2
    /\ round = total_seats
    /\ \E k \in Positions :
          /\ lists[k].votes = 0
          /\ k \in { eligible_results[j] : j \in 1..Len(eligible_results) }
    /\ SumSeats(retval.value) = total_seats

(***************************************************************************)
(* One more seat.                                                          *)
(***************************************************************************)
\* Two calls were made on the same lists and threshold_percent, the second
\* with one more seat, and both returned.
MoreSeats ==
    /\ Len(calls) = 2
    /\ calls[1].pc = "done"
    /\ calls[2].pc = "done"
    /\ calls[2].lists = calls[1].lists
    /\ calls[2].threshold_percent = calls[1].threshold_percent
    /\ calls[1].total_seats >= 1
    /\ calls[2].total_seats = calls[1].total_seats + 1

\* The second allocation is the first with one more seat for candidate k.
OneMoreSeatAt(k) ==
    calls[2].retval.value =
        [calls[1].retval.value EXCEPT ![k].seats = @ + 1]

\* An allocation that gives every candidate 0 seats.
NoSeats(rs) == \A j \in 1..Len(rs) : rs[j].seats = 0

\* C24: for the same candidate list and threshold_percent, the allocation
\* for total_seats = n + 1 is the allocation for n with exactly one
\* candidate's seats increased by 1.
C24_HouseMonotonicity ==
    MoreSeats => \E k \in 1..Len(calls[1].lists) : OneMoreSeatAt(k)

\* C24, amended: if the allocation for n gives any seat, the allocation for
\* n + 1 is the same with exactly one candidate's seats increased by 1;
\* otherwise both give every candidate 0 seats.  No candidate has fewer
\* seats for n + 1 than for n.
C24_HouseMonotonicityOrNoSeats ==
    MoreSeats =>
        /\ IF NoSeats(calls[1].retval.value)
           THEN calls[2].retval.value = calls[1].retval.value
           ELSE \E k \in 1..Len(calls[1].lists) : OneMoreSeatAt(k)
        /\ \A j \in 1..Len(calls[1].lists) :
              calls[2].retval.value[j].seats >= calls[1].retval.value[j].seats

\* The extra seat went to a candidate that had seats already, while another
\* candidate kept the seats it had.
C24_Witness ==
    /\ MoreSeats
    /\ \E k, j \in 1..Len(calls[1].lists) :
          /\ j # k
          /\ OneMoreSeatAt(k)
          /\ calls[1].retval.value[k].seats > 0
          /\ calls[1].retval.value[j].seats > 0

(***************************************************************************)
(* What the tables hold.                                                   *)
(***************************************************************************)
\* C26: whatever submit_votes, clear_submissions and calculate_aggregate
\* requests were served, in whatever interleaving, every stored calculation
\* has total_seats > 0, total_votes equal to the sum of its results' votes,
\* at most one result per party, and results' seats that sum to total_seats
\* if total_votes > 0 and to 0 otherwise.
C26_StoredCalculations ==
    \A c \in 1..Len(calculations) :
        LET record == calculations[c] IN
            /\ record.total_seats > 0
            /\ record.total_votes = SumVotes(record.results)
            /\ \A i, j \in 1..Len(record.results) :
                  record.results[i].name = record.results[j].name => i = j
            /\ SumSeats(record.results) =
                  IF record.total_votes > 0 THEN record.total_seats ELSE 0

\* A calculation over two parties with votes is stored, one party without
\* a seat, and the submissions it was computed from have been cleared.
C26_Witness ==
    /\ submissions = << >>
    /\ \E c \in 1..Len(calculations) :
          /\ Len(calculations[c].results) = 2
          /\ calculations[c].total_votes = 2
          /\ \E i \in 1..2 : calculations[c].results[i].seats = 0

\* The items of a batch that carry a party name.
Named(batch) == SelectSeq(batch, LAMBDA item : item.party_name # "")

\* An item of the batch has negative votes or names a party that is not
\* registered.
HasBadItem(batch) ==
    \E i \in 1..Len(batch) :
        \/ batch[i].votes < 0
        \/ batch[i].party_name \notin RegisteredParties \cup {""}

\* The rows stored for items under the ids returned.
RowsFor(items, ids) ==
    [i \in 1..Len(items) |-> [id |-> ids[i],
                              party_name |-> items[i].party_name,
                              votes |-> items[i].votes]]

\* C27: insert_voting_submissions on a batch with an item that has negative
\* votes or names a party that is not registered raises ValueError and
\* stores nothing of the batch; on any other batch it stores every item
\* with a party name and returns its id.  Every stored submission has
\* votes >= 0 and a registered party.
C27_AllOrNothing ==
    [][\A batch \in Batches : SubmitBatch(batch) =>
           /\ IF HasBadItem(batch)
              THEN /\ response'.status = "ValueError"
                   /\ submissions' = submissions
              ELSE /\ response'.status = "ok"
                   /\ Len(response'.submission_ids) = Len(Named(batch))
                   /\ submissions' = submissions \o
                          RowsFor(Named(batch), response'.submission_ids)
           /\ \A r \in 1..Len(submissions') :
                 /\ submissions'[r].votes >= 0
                 /\ submissions'[r].party_name \in RegisteredParties]_vars

\* A result of rs names a party that is not registered.
NamesUnregistered(rs) ==
    \E i \in 1..Len(rs) : rs[i].name \notin RegisteredParties \cup {""}

\* C28: insert_calculation with total_seats <= 0, total_votes < 0 or a
\* result that names a party that is not registered raises, returns no
\* record id, and leaves the stored calculations, result rows included, as
\* they were.
C28_InsertCalculationAllOrNothing ==
    [][\A seats \in RecordSeats, votes \in RecordVotes,
          rs \in RecordResults :
           ( /\ InsertCalculationWith(seats, votes, rs)
             /\ (seats <= 0 \/ votes < 0 \/ NamesUnregistered(rs)) )
           => /\ response'.status \in {"ValueError", "ConnectionError"}
              /\ calculations' = calculations]_vars

\* With one calculation stored, an insert_calculation was refused for a
\* party that is not registered after its calculation row had taken an
\* id, and only the calculation stored before is there.
C28_Witness ==
    /\ response.op = "insert_calculation"
    /\ response.status = "ValueError"
    /\ next_calculation_id = 3
    /\ Len(calculations) = 1
    /\ calculations[1].id = 1

====
